---- MODULE Spec2Model ----
(***************************************************************************)
(* State-machine model of webview/platforms/gtk.py: the BrowserView       *)
(* surface (construction, teardown, close confirmation, load handling,    *)
(* evaluate_js), the UI loop with its idle queue and nested loops, the     *)
(* module-level command router, and the multi-process bridge (proc_func,   *)
(* its childs and caller threads, mp_event_loop).                          *)
(***************************************************************************)
EXTENDS Integers, Sequences, FiniteSets, TLC

\* ------------------------------------------------------------------ bounds
NThreads == 2          \* calling threads of the embedding program
MaxUserClose == 2      \* delete-events the user raises
NWaiters == 1          \* of the calling threads, those that call evaluate_js in the
                       \* scenarios that fix the callers' roles
MaxOps == 2            \* operations a thread issues one after the other where a
                       \* scenario lets it go on after a call

Threads == 1..NThreads
Waiters == 1..NWaiters
Uids == {"master", "w1", "w2"}
Pair == {"master", "w1"}
Ghost == "ghost"                       \* a uid no surface was ever created for
AllUids == Uids \cup {Ghost}
Signals == {"shown", "loaded", "closing", "closed"}
Procs == {"controller", "ui"}          \* "ui": the process that runs gtk.main()
Ids == Threads                         \* a call draws at most one fresh identifier
NoneV == "None"
JsValues == {"7"}                    \* strings the renderer reports for a script

VARIABLES
  mp,           \* _multiprocessing
  old_webkit,   \* old_webkit (line 41)
  confirm,      \* window.confirm_close, per uid
  instances,    \* BrowserView.instances, per process: the uids it maps
  windows,      \* webview.windows, per process: the uids of the Sessions it lists
  sig,          \* the Session signals in the "ui" process
  ctl,          \* the Session signals in the controller process (multi-process mode)
  applied,      \* per uid: the toolkit calls made on its native window / renderer, in order
  idleq,        \* callbacks queued with glib.idle_add, in order
  uistack,      \* nested loops the UI thread is inside (close_window's pump, dialog.run)
  mainLevel,    \* gtk.main_level()
  quit,         \* gtk.main_quit() was called
  js_results,   \* per uid: the keys of BrowserView.js_results
  slot,         \* per call id: the 'result' of its js_results entry
  sem,          \* per call id: the permits of its 'semaphore'
  nextId,       \* next fresh identifier (uuid1 / Pipe)
  pendingJs,    \* per uid: scripts handed to the renderer and not yet completed
  nav,          \* per uid: the renderer's navigation, [id, phase]
  opacity,      \* per uid: webview.props.opacity
  th,           \* per calling thread: its position in the call it is making
  pipes,        \* per connection id: the messages sent on it and not yet received
  views,        \* Queue views
  mp_events,    \* Queue mp_events
  mp_idle_add,  \* Queue mp_idle_add
  childs,       \* proc_func.childs: its position and its local variable window
  handlers,     \* per uid: the signals of the worker's Session that carry a lambda
  callerT,      \* proc_func.caller: "running" or "dead"
  evloops,      \* number of mp_event_loop threads started
  requested,    \* uids create_window was called for
  userCloses,   \* delete-events raised so far
  hist          \* observations: what ran where, which set of loaded belongs to which navigation

cfgVars == <<mp, old_webkit, confirm>>
uiVars  == <<instances, windows, sig, applied, idleq, uistack, mainLevel, quit>>
jsVars  == <<js_results, slot, sem, nextId, pendingJs>>
navVars == <<nav, opacity>>
mpVars  == <<ctl, views, mp_events, mp_idle_add, childs, handlers, callerT, evloops>>
envVars == <<requested, userCloses>>
vars == <<cfgVars, uiVars, jsVars, navVars, th, pipes, mpVars, envVars, hist>>

\* ----------------------------------------------------------------- helpers
\* The process a caller of the module-level functions runs in.
CallerProc == IF mp THEN "controller" ELSE "ui"

\* A callback record of the idle queue, a frame of the UI thread, a command of the inbox.
Cb(f, uid, arg, conn) == [f |-> f, uid |-> uid, arg |-> arg, conn |-> conn]
Frame(k, uid, arg, conn) == [k |-> k, uid |-> uid, arg |-> arg, conn |-> conn]

AllUnset == [s \in Signals |-> FALSE]
IdleTh == [pc |-> "idle", op |-> "none", uid |-> "none", id |-> 0, stale |-> FALSE,
           live |-> FALSE, unloaded |-> FALSE, out |-> "none", ret |-> "none"]

Top == IF uistack = <<>> THEN Frame("main", "none", "", 0) ELSE uistack[Len(uistack)]
Pop(s) == SubSeq(s, 1, Len(s) - 1)

Range(s) == {s[i] : i \in DOMAIN s}
Constructed(w) == applied[w] # <<>>
Destroyed(w) == "destroy" \in Range(applied[w])

\* An observation of a toolkit call ("toolkit") or of an instance-table lookup
\* ("lookup"): by which function, on which thread of which process, and whether the
\* native window was still there.
Obs(kind, f, proc, thread, live) ==
  [kind |-> kind, f |-> f, proc |-> proc, thread |-> thread, live |-> live]
Tk(f, w, thread) == Obs("toolkit", f, "ui", thread, ~Destroyed(w))
Saw(o) == [hist EXCEPT !.obs = @ \cup {o}]

\* A Session signal of the "ui" process is set: every lambda attached to it runs
\* (proc_func.childs, lines 421-424). The lambda reads childs' variable window when it
\* runs, not when it was made.
Fire(q, w, name) ==
  IF name \in handlers[w] THEN Append(q, <<childs.window, name>>) ELSE q

\* The UI thread can dispatch a source: gtk.main() runs and was not told to quit, or
\* the thread is inside a nested loop (gtk.main_iteration, dialog.run).
UICanRun == mainLevel = 1 /\ (uistack = <<>> => ~quit)
IdleHead(f) == UICanRun /\ idleq # <<>> /\ Head(idleq).f = f

Returned(t, v) == [th EXCEPT ![t].pc = "done", ![t].out = "return", ![t].ret = v]
Raised(t, e) == [th EXCEPT ![t].pc = "done", ![t].out = "raise", ![t].ret = e]
CanCall(t) == th[t].pc = "idle"
Begin(t, op, uid) ==
  [IdleTh EXCEPT !.op = op, !.uid = uid,
                 !.stale = uid \notin instances["ui"],
                 !.live = uid \in instances["ui"] /\ ~sig[uid].closing,
                 !.unloaded = IF uid \in Uids THEN ~sig[uid].loaded ELSE FALSE]

\* ------------------------------------------------------------------- Init
\* The state after construction. create_window(master) constructed BrowserView(master)
\* (lines 60-157), and show() (lines 259-266) showed the window and entered
\* gtk.main(); in multi-process mode this happened in the worker (proc_func, line 437),
\* whose two threads run, and the controller process holds no BrowserView. The other
\* uids of built were created after it in single-process mode: their create callback
\* and the show_all it queues (lines 450-452, 268) have run.
InitFor(m, ow, cc, built) ==
  /\ mp = m
  /\ old_webkit = ow
  /\ confirm = cc
  /\ instances = [p \in Procs |-> IF p = "ui" THEN built ELSE {}]
  /\ windows = [p \in Procs |-> IF p = "ui" THEN built
                                ELSE IF m THEN {"master"} ELSE {}]
  /\ sig = [w \in Uids |-> AllUnset]
  /\ ctl = [w \in Uids |-> AllUnset]
  /\ applied = [w \in Uids |-> IF w = "master" THEN <<"show_all">>
                               ELSE IF w \in built THEN <<"show_all", "show_all">>
                               ELSE <<>>]
  /\ idleq = <<>>
  /\ uistack = <<>>
  /\ mainLevel = 1
  /\ quit = FALSE
  /\ js_results = [w \in Uids |-> {}]
  /\ slot = [i \in Ids |-> NoneV]
  /\ sem = [i \in Ids |-> 0]
  /\ nextId = 1
  /\ pendingJs = [w \in Uids |-> {}]
  /\ nav = [w \in Uids |-> IF w \in built THEN [id |-> 1, phase |-> "started"]
                                        ELSE [id |-> 0, phase |-> "none"]]
  /\ opacity = [w \in Uids |-> 0]
  /\ th = [t \in Threads |-> IdleTh]
  /\ pipes = [i \in Ids |-> <<>>]
  /\ views = <<>>
  /\ mp_events = <<>>
  /\ mp_idle_add = <<>>
  /\ childs = [pc |-> "get", window |-> "none"]
  /\ handlers = [w \in Uids |-> {}]
  /\ callerT = "running"
  /\ evloops = 0
  /\ requested = built
  /\ userCloses = 0
  /\ hist = [obs |-> {}, loadedBy |-> [w \in Uids |-> 0], answers |-> [w \in Uids |-> <<>>],
             chosen |-> [i \in Ids |-> [type |-> "none", answer |-> "none"]],
             uncaught |-> {}, invoked |-> [w \in Uids |-> {}],
             issued |-> [t \in Threads |-> <<>>]]

\* ------------------------------------------------ BrowserView.close_window
\* close_window up to its pump (lines 160-166): closing is set, every entry of
\* js_results has its semaphore released, and the UI thread starts pumping the loop.
close_window_begin(w, stack) ==
  /\ sig' = [sig EXCEPT ![w].closing = TRUE]
  /\ mp_events' = Fire(mp_events, w, "closing")
  /\ sem' = [i \in Ids |-> IF i \in js_results[w] THEN sem[i] + 1 ELSE sem[i]]
  /\ uistack' = Append(stack, Frame("pump", w, "", 0))

\* A surface that leaves the table as it is.
Without_Kept(table, w) == table

\* del BrowserView.instances[self.uid] (line 169).
Without(table, w) == table \ {w}

\* A surface that takes every table for empty.
TableEmpty_Always(table) == TRUE

\* BrowserView.instances == {} (line 176).
TableEmpty(table) == table = {}

\* close_window after its pump (lines 165-177): gtk.events_pending() is false, so the
\* window is destroyed, the uid is deleted from the table (KeyError when it is no longer
\* there: the rest is skipped), the Session leaves windows, closed is set, and with an
\* empty table the loop is told to quit.
close_window_end ==
  /\ mainLevel = 1
  /\ Top.k = "pump"
  /\ idleq = <<>>
  /\ LET w == Top.uid IN
     /\ applied' = [applied EXCEPT ![w] = Append(@, "destroy")]
     /\ hist' = Saw(Tk("window.destroy", w, "ui"))
     /\ uistack' = Pop(uistack)
     /\ IF w \in instances["ui"]
        THEN /\ instances' = [instances EXCEPT !["ui"] = Without(@, w)]
             /\ windows' = [windows EXCEPT !["ui"] = @ \ {w}]
             /\ sig' = [sig EXCEPT ![w].closed = TRUE]
             /\ mp_events' = Fire(mp_events, w, "closed")
             /\ quit' = (quit \/ TableEmpty(instances'["ui"]))
        ELSE UNCHANGED <<instances, windows, sig, mp_events, quit>>
  /\ UNCHANGED <<cfgVars, idleq, mainLevel, jsVars, navVars, th, pipes, ctl, views,
                 mp_idle_add, childs, handlers, callerT, evloops, envVars>>

\* gtk.main() returns once main_quit was called and the dispatch that called it ended
\* (BrowserView.show, line 266).
main_returns ==
  /\ mainLevel = 1 /\ quit /\ uistack = <<>>
  /\ mainLevel' = 0
  /\ UNCHANGED <<cfgVars, instances, windows, sig, applied, idleq, uistack, quit, jsVars,
                 navVars, th, pipes, mpVars, envVars, hist>>

\* The user asks to close the window: its delete-event runs on_destroy for a
\* confirm_close window, close_window otherwise (lines 104-107). on_destroy (lines
\* 179-183) opens the modal prompt and runs its loop.
delete_event(w) ==
  /\ UICanRun
  /\ Constructed(w) /\ ~Destroyed(w)
  /\ \A i \in DOMAIN uistack : uistack[i].k \notin {"dialog", "filedialog"}
  /\ userCloses < MaxUserClose
  /\ userCloses' = userCloses + 1
  /\ IF confirm[w]
     THEN /\ uistack' = Append(uistack, Frame("dialog", w, "", 0))
          /\ UNCHANGED <<sig, mp_events, sem>>
     ELSE close_window_begin(w, uistack)
  /\ UNCHANGED <<cfgVars, instances, windows, applied, idleq, mainLevel, quit, js_results,
                 slot, nextId, pendingJs, navVars, th, pipes, ctl, views, mp_idle_add,
                 childs, handlers, callerT, evloops, requested, hist>>

\* A surface that does not look at the answer: every answer closes the window.
ConfirmAccepted_Always(result) == TRUE

\* The test on the prompt's answer (on_destroy, line 184).
ConfirmAccepted(result) == result = "OK"

\* The rest of on_destroy (lines 183-188): the prompt returns the user's answer, and
\* close_window runs when the test accepts it.
on_destroy_response(result) ==
  /\ mainLevel = 1
  /\ Top.k = "dialog"
  /\ LET w == Top.uid IN
     /\ hist' = [hist EXCEPT !.answers[w] = Append(@, result)]
     /\ IF ConfirmAccepted(result)
        THEN close_window_begin(w, Pop(uistack))
        ELSE /\ uistack' = Pop(uistack)
             /\ UNCHANGED <<sig, mp_events, sem>>
  /\ UNCHANGED <<cfgVars, instances, windows, applied, idleq, mainLevel, quit, js_results,
                 slot, nextId, pendingJs, navVars, th, pipes, ctl, views, mp_idle_add,
                 childs, handlers, callerT, evloops, envVars>>

\* ------------------------------------------------------- renderer callbacks
\* notify::visible (on_webview_ready, lines 190-194): shown is set. The signal also
\* fires after the window was closed, and 'shown' is always an attribute.
on_webview_ready(w) ==
  /\ UICanRun
  /\ Constructed(w)
  /\ ~sig[w].shown
  /\ sig' = [sig EXCEPT ![w].shown = TRUE]
  /\ mp_events' = Fire(mp_events, w, "shown")
  /\ UNCHANGED <<cfgVars, instances, windows, applied, idleq, uistack, mainLevel, quit,
                 jsVars, navVars, th, pipes, ctl, views, mp_idle_add, childs, handlers,
                 callerT, evloops, envVars, hist>>

\* load_changed with status FINISHED (on_load_finish, lines 197-205): set_opacity is
\* queued while the webview is transparent, and _set_js_api (lines 405-410) queues
\* create_bridge. The callback carries the navigation it was queued for.
on_load_finish(w) ==
  /\ UICanRun
  /\ ~Destroyed(w)
  /\ nav[w].phase = "started"
  /\ nav' = [nav EXCEPT ![w].phase = "finished"]
  /\ idleq' = idleq
              \o (IF opacity[w] = 0 THEN <<Cb("webview.set_opacity", w, "", 0)>> ELSE <<>>)
              \o <<Cb("create_bridge", w, "", nav[w].id)>>
  /\ hist' = Saw(Tk("webview.run_javascript", w, "ui"))
  /\ UNCHANGED <<cfgVars, instances, windows, sig, applied, uistack, mainLevel, quit,
                 jsVars, opacity, th, pipes, mpVars, envVars>>

\* The queued webview.set_opacity(1.0) (line 200).
run_set_opacity ==
  /\ IdleHead("webview.set_opacity")
  /\ LET w == Head(idleq).uid IN
     /\ opacity' = [opacity EXCEPT ![w] = 1]
     /\ hist' = Saw(Tk("webview.set_opacity", w, "ui"))
  /\ idleq' = Tail(idleq)
  /\ UNCHANGED <<cfgVars, instances, windows, sig, applied, uistack, mainLevel, quit,
                 jsVars, nav, th, pipes, mpVars, envVars>>

\* _set_js_api.create_bridge (lines 406-408): the bridge script is injected and loaded
\* is set.
create_bridge ==
  /\ IdleHead("create_bridge")
  /\ LET w == Head(idleq).uid IN
     /\ sig' = [sig EXCEPT ![w].loaded = TRUE]
     /\ mp_events' = Fire(mp_events, w, "loaded")
     /\ hist' = [Saw(Tk("webview.run_javascript", w, "ui"))
                   EXCEPT !.loadedBy[w] = Head(idleq).conn]
  /\ idleq' = Tail(idleq)
  /\ UNCHANGED <<cfgVars, instances, windows, applied, uistack, mainLevel, quit, jsVars,
                 navVars, th, pipes, ctl, views, mp_idle_add, childs, handlers, callerT,
                 evloops, envVars>>

\* ------------------------------------------------ BrowserView.evaluate_js
\* json.loads on the strings the renderer reports.
JsonLoads(s) ==
  IF s = "7" THEN "int:7" ELSE IF s = "null" THEN NoneV
  ELSE IF s = "int:7" \/ s = NoneV THEN "TypeError" ELSE "ValueError"

\* The decoding of a result slot (line 399).
Decode(result) ==
  IF result = "undefined" \/ result = "null" \/ result = NoneV THEN NoneV
  ELSE IF result = "" THEN "" ELSE JsonLoads(result)

\* The module-level evaluate_js (lines 679-680) looks the surface up in the caller's
\* process, on the calling thread; the method then draws a fresh id and registers the
\* semaphore and the result slot (lines 383-385).
evaluate_js(t, uid) ==
  /\ CanCall(t)
  /\ hist' = Saw(Obs("lookup", "evaluate_js", CallerProc, "caller", TRUE))
  /\ IF uid \in instances[CallerProc]
     THEN /\ th' = [th EXCEPT ![t] = [Begin(t, "evaluate_js", uid)
                                        EXCEPT !.pc = "wait_loaded", !.id = nextId]]
          /\ nextId' = nextId + 1
          /\ js_results' = [js_results EXCEPT ![uid] = @ \cup {nextId}]
          /\ slot' = [slot EXCEPT ![nextId] = NoneV]
          /\ sem' = [sem EXCEPT ![nextId] = 0]
     ELSE /\ th' = [th EXCEPT ![t] = [Begin(t, "evaluate_js", uid)
                                        EXCEPT !.pc = "done", !.out = "raise",
                                               !.ret = "KeyError"]]
          /\ UNCHANGED <<nextId, js_results, slot, sem>>
  /\ UNCHANGED <<cfgVars, uiVars, pendingJs, navVars, pipes, mpVars, envVars>>

\* A surface without the wait on loaded: the call goes on at once.
LoadedWaitPassed_NoWait(w) == TRUE

\* self.loaded.wait() (line 390) returns for a surface whose loaded signal is set.
LoadedWaitPassed(w) == sig[w].loaded

\* Lines 390-391: the wait on loaded returns and _evaluate_js is queued on the UI loop.
evaluate_js_loaded(t) ==
  /\ th[t].pc = "wait_loaded"
  /\ LoadedWaitPassed(th[t].uid)
  /\ idleq' = Append(idleq, Cb("_evaluate_js", th[t].uid, "", th[t].id))
  /\ th' = [th EXCEPT ![t].pc = "acquire"]
  /\ UNCHANGED <<cfgVars, instances, windows, sig, applied, uistack, mainLevel, quit,
                 jsVars, navVars, pipes, mpVars, envVars, hist>>

\* result_semaphore.acquire() (line 392).
evaluate_js_acquire(t) ==
  /\ th[t].pc = "acquire"
  /\ sem[th[t].id] > 0
  /\ sem' = [sem EXCEPT ![th[t].id] = @ - 1]
  /\ th' = [th EXCEPT ![t].pc = "check"]
  /\ UNCHANGED <<cfgVars, uiVars, js_results, slot, nextId, pendingJs, navVars, pipes,
                 mpVars, envVars, hist>>

\* Lines 394-403: with the loop gone the call returns None and leaves its entry; else
\* it decodes the slot, deletes the entry and returns (json.loads may raise).
evaluate_js_return(t) ==
  /\ th[t].pc = "check"
  /\ IF mainLevel = 0
     THEN /\ th' = Returned(t, NoneV)
          /\ UNCHANGED js_results
     ELSE IF Decode(slot[th[t].id]) \in {"ValueError", "TypeError"}
     THEN /\ th' = Raised(t, Decode(slot[th[t].id]))
          /\ UNCHANGED js_results
     ELSE /\ th' = Returned(t, Decode(slot[th[t].id]))
          /\ js_results' = [js_results EXCEPT ![th[t].uid] = @ \ {th[t].id}]
  /\ UNCHANGED <<cfgVars, uiVars, slot, sem, nextId, pendingJs, navVars, pipes, mpVars,
                 envVars, hist>>

\* evaluate_js._evaluate_js on the UI loop (lines 370-372): the script goes to the
\* renderer.
run_evaluate_js ==
  /\ IdleHead("_evaluate_js")
  /\ LET w == Head(idleq).uid IN
     /\ pendingJs' = [pendingJs EXCEPT ![w] = @ \cup {Head(idleq).conn}]
     /\ hist' = Saw(Tk("webview.run_javascript", w, "ui"))
  /\ idleq' = Tail(idleq)
  /\ UNCHANGED <<cfgVars, instances, windows, sig, applied, uistack, mainLevel, quit,
                 js_results, slot, sem, nextId, navVars, th, pipes, mpVars, envVars>>

\* The result of a script reaches the surface: through evaluate_js._callback (lines
\* 374-381) on a current WebKit, through the eval branch of on_title_change (lines
\* 216-222) on an old one, where json.loads already decoded the value. Both index
\* js_results with the id and raise KeyError, releasing nothing, once the entry is gone.
js_result(w, id, v) ==
  /\ UICanRun
  /\ ~Destroyed(w)
  /\ id \in pendingJs[w]
  /\ pendingJs' = [pendingJs EXCEPT ![w] = @ \ {id}]
  /\ IF id \in js_results[w]
     THEN /\ slot' = [slot EXCEPT ![id] = IF old_webkit THEN JsonLoads(v) ELSE v]
          /\ sem' = [sem EXCEPT ![id] = @ + 1]
     ELSE UNCHANGED <<slot, sem>>
  /\ UNCHANGED <<cfgVars, uiVars, js_results, nextId, navVars, th, pipes, mpVars,
                 envVars, hist>>

\* ----------------------------------------------- BrowserView.on_title_change
\* Titles a page sets, and the Python value json.loads makes of each: py is the type
\* of the value ("ValueError" when the text is not JSON), type the value under the key
\* 'type' of an object ("" when it has no such key).
Titles == {"My Page", "7", "[]", "{}", "{\"type\": \"log\"}",
           "{\"type\": \"invoke\", \"function\": \"f\", \"id\": \"1\"}"}
TitleLoads(title) ==
  CASE title = "My Page" -> [py |-> "ValueError", type |-> ""]
    [] title = "7" -> [py |-> "int", type |-> ""]
    [] title = "[]" -> [py |-> "list", type |-> ""]
    [] title = "{}" -> [py |-> "dict", type |-> ""]
    [] title = "{\"type\": \"log\"}" -> [py |-> "dict", type |-> "log"]
    [] OTHER -> [py |-> "dict", type |-> "invoke"]

\* 'type' not in js_data (line 213): a membership test, which a number does not
\* support (TypeError); a list or an object without the key gives True.
TypeNotIn(js_data) ==
  IF js_data.py = "int" THEN "TypeError"
  ELSE IF js_data.py = "list" \/ js_data.type = "" THEN "True" ELSE "False"

\* An exception leaves a callback of the UI loop.
Uncaught(f, arg, exc) == [f |-> f, arg |-> arg, exc |-> exc]

\* notify::title with a title the page set (on_title_change, lines 207-237; the reply
\* of an evaluate_js script on an old WebKit is js_result). The handler catches
\* ValueError and json.JSONDecodeError and nothing else. The invoke branch calls the
\* js api and injects the script that hands back the return value.
on_title_change(w, title) ==
  /\ UICanRun
  /\ ~Destroyed(w)
  /\ LET js_data == TitleLoads(title) IN
     hist' = IF js_data.py = "ValueError" THEN hist
             ELSE IF TypeNotIn(js_data) = "TypeError"
             THEN [hist EXCEPT !.uncaught = @ \cup {Uncaught("on_title_change", title, "TypeError")}]
             ELSE IF TypeNotIn(js_data) = "True" THEN hist
             ELSE IF js_data.type = "invoke"
             THEN [Saw(Tk("webview.run_javascript", w, "ui"))
                     EXCEPT !.invoked[w] = @ \cup {title}]
             ELSE hist
  /\ UNCHANGED <<cfgVars, uiVars, jsVars, navVars, th, pipes, mpVars, envVars>>

\* ---------------------------------------------------------- command router
\* The private functions the router defers to (lines 499-649): each wraps its work in
\* a closure and queues the closure; the closure looks the uid up when it runs.
Deferred == {"_set_title", "_destroy_window", "_toggle_fullscreen", "_set_on_top",
             "_resize", "_move", "_load_url", "_load_html"}
\* _hide, _show, _minimize, _restore (lines 583-617) look the uid up at once and queue
\* the surface's bound method.
Immediate == {"_hide", "_show", "_minimize", "_restore"}
\* _get_position, _get_size (lines 683-684, 702-703) look the uid up at once, read the
\* native window and send the value.
Direct == {"_get_position", "_get_size"}

Method(f) == CASE f = "_hide" -> "BrowserView.hide"
               [] f = "_show" -> "BrowserView.show"
               [] f = "_minimize" -> "BrowserView.minimize"
               [] f = "_restore" -> "BrowserView.restore"

\* What a command (callable, *args) does when it is called: whether the call raises
\* KeyError, and otherwise the idle queue, the pipes and the observations after it.
\* glib.idle_add as the callable queues its first argument, _create_file_dialog (the
\* one command that is built so, lines 668-670).
ExecRaises(cmd) == cmd.f \in Immediate \cup Direct /\ cmd.uid \notin instances["ui"]
ExecIdleq(cmd) ==
  IF cmd.f \in Deferred THEN Append(idleq, cmd)
  ELSE IF cmd.f \in Immediate THEN Append(idleq, Cb(Method(cmd.f), cmd.uid, "", 0))
  ELSE IF cmd.f = "glib.idle_add"
  THEN Append(idleq, Cb("_create_file_dialog", cmd.uid, cmd.arg, cmd.conn))
  ELSE idleq
ExecObs(cmd, thread) ==
  IF cmd.f \in Immediate
  THEN {Obs("lookup", cmd.f, "ui", thread, TRUE)}
  ELSE IF cmd.f \in Direct
  THEN {Obs("lookup", cmd.f, "ui", thread, TRUE)}
       \cup (IF cmd.uid \in instances["ui"] THEN {Tk(cmd.f, cmd.uid, thread)} ELSE {})
  ELSE {}

\* The dispatch every non-returning operation shares (lines 492-649): in multi-process
\* mode the command goes onto mp_idle_add, else the private function is called on the
\* calling thread.
Route(t, op, cmd) ==
  /\ CanCall(t)
  /\ IF mp
     THEN /\ mp_idle_add' = Append(mp_idle_add, cmd)
          /\ th' = [th EXCEPT ![t] = [Begin(t, op, cmd.uid) EXCEPT
                                        !.pc = "done", !.out = "return", !.ret = NoneV]]
          /\ UNCHANGED <<idleq, hist>>
     ELSE /\ hist' = [hist EXCEPT !.obs = @ \cup ExecObs(cmd, "caller")]
          /\ UNCHANGED mp_idle_add
          /\ IF ExecRaises(cmd)
             THEN /\ th' = [th EXCEPT ![t] = [Begin(t, op, cmd.uid) EXCEPT
                                  !.pc = "done", !.out = "raise", !.ret = "KeyError"]]
                  /\ UNCHANGED idleq
             ELSE /\ th' = [th EXCEPT ![t] = [Begin(t, op, cmd.uid) EXCEPT
                                  !.pc = "done", !.out = "return", !.ret = NoneV]]
                  /\ idleq' = ExecIdleq(cmd)
  /\ UNCHANGED <<cfgVars, instances, windows, sig, applied, uistack, mainLevel, quit,
                 jsVars, navVars, pipes, ctl, views, mp_events, childs, handlers,
                 callerT, evloops, envVars>>

set_title(t, uid) == Route(t, "set_title", Cb("_set_title", uid, "", 0))
destroy_window(t, uid) == Route(t, "destroy_window", Cb("_destroy_window", uid, "", 0))
toggle_fullscreen(t, uid) ==
  Route(t, "toggle_fullscreen", Cb("_toggle_fullscreen", uid, "", 0))
set_on_top(t, uid) == Route(t, "set_on_top", Cb("_set_on_top", uid, "", 0))
resize(t, uid) == Route(t, "resize", Cb("_resize", uid, "", 0))
load_url(t, uid) == Route(t, "load_url", Cb("_load_url", uid, "", 0))
load_html(t, uid) == Route(t, "load_html", Cb("_load_html", uid, "", 0))
hide(t, uid) == Route(t, "hide", Cb("_hide", uid, "", 0))
show(t, uid) == Route(t, "show", Cb("_show", uid, "", 0))
minimize(t, uid) == Route(t, "minimize", Cb("_minimize", uid, "", 0))
restore(t, uid) == Route(t, "restore", Cb("_restore", uid, "", 0))

\* move (lines 562-566): the multi-process branch queues _move with the coordinates;
\* the other branch names a variable, title, that does not exist: NameError.
move(t, uid, xy) ==
  IF mp THEN Route(t, "move", Cb("_move", uid, xy, 0))
  ELSE /\ CanCall(t)
       /\ th' = [th EXCEPT ![t] = [Begin(t, "move", uid) EXCEPT
                                     !.pc = "done", !.out = "raise", !.ret = "NameError"]]
       /\ UNCHANGED <<cfgVars, uiVars, jsVars, navVars, pipes, mpVars, envVars, hist>>

\* A non-returning operation returned (lines 492-617) and the calling thread goes on to
\* its next statement; the operation joins the list of those the thread has issued.
next_call(t) ==
  /\ th[t].pc = "done" /\ th[t].out = "return"
  /\ Len(hist.issued[t]) + 1 < MaxOps
  /\ th' = [th EXCEPT ![t] = IdleTh]
  /\ hist' = [hist EXCEPT !.issued[t] = Append(@, th[t].op)]
  /\ UNCHANGED <<cfgVars, uiVars, jsVars, navVars, pipes, mpVars, envVars>>

\* The operations a thread has issued so far, in the order of its calls.
Issued(t) == hist.issued[t] \o (IF th[t].op = "none" THEN <<>> ELSE <<th[t].op>>)

\* The value a query produces for a surface, as the text sent on the pipe.
QueryValue(f, uid) ==
  (IF f = "_get_position" THEN "position of " ELSE "size of ") \o uid

\* get_position / get_size (lines 687-719): a Pipe per call; in multi-process mode the
\* command goes onto mp_idle_add (put does not raise, so the except branch is dead);
\* else the private function is called on the calling thread and, when it raises, is
\* queued on the UI loop instead. The caller then blocks in recv().
Query(t, op, f, uid) ==
  /\ CanCall(t)
  /\ LET cmd == Cb(f, uid, "", nextId) IN
     /\ th' = [th EXCEPT ![t] = [Begin(t, op, uid) EXCEPT !.pc = "recv", !.id = nextId]]
     /\ nextId' = nextId + 1
     /\ IF mp
        THEN /\ mp_idle_add' = Append(mp_idle_add, cmd)
             /\ UNCHANGED <<idleq, pipes, hist>>
        ELSE /\ UNCHANGED mp_idle_add
             /\ hist' = [hist EXCEPT !.obs = @ \cup ExecObs(cmd, "caller")]
             /\ IF ExecRaises(cmd)
                THEN /\ idleq' = Append(idleq, cmd)
                     /\ UNCHANGED pipes
                ELSE /\ pipes' = [pipes EXCEPT ![nextId] = Append(@, QueryValue(f, uid))]
                     /\ UNCHANGED idleq
  /\ UNCHANGED <<cfgVars, instances, windows, sig, applied, uistack, mainLevel, quit,
                 js_results, slot, sem, pendingJs, navVars, ctl, views, mp_events, childs,
                 handlers, callerT, evloops, envVars>>

get_position(t, uid) == Query(t, "get_position", "_get_position", uid)
get_size(t, uid) == Query(t, "get_size", "_get_size", uid)

\* create_file_dialog (lines 663-676): a Pipe per call; _create_file_dialog is queued
\* on the UI loop, in multi-process mode by the command (glib.idle_add, ...).
create_file_dialog(t, uid, dialog_type) ==
  /\ CanCall(t)
  /\ th' = [th EXCEPT ![t] = [Begin(t, "create_file_dialog", uid)
                                EXCEPT !.pc = "recv", !.id = nextId]]
  /\ nextId' = nextId + 1
  /\ IF mp
     THEN /\ mp_idle_add' = Append(mp_idle_add,
                                   Cb("glib.idle_add", uid, dialog_type, nextId))
          /\ UNCHANGED idleq
     ELSE /\ idleq' = Append(idleq, Cb("_create_file_dialog", uid, dialog_type, nextId))
          /\ UNCHANGED mp_idle_add
  /\ UNCHANGED <<cfgVars, instances, windows, sig, applied, uistack, mainLevel, quit,
                 js_results, slot, sem, pendingJs, navVars, pipes, ctl, views, mp_events,
                 childs, handlers, callerT, evloops, envVars, hist>>

\* parent_conn.recv() (lines 676, 699, 719).
recv(t) ==
  /\ th[t].pc = "recv"
  /\ pipes[th[t].id] # <<>>
  /\ th' = Returned(t, Head(pipes[th[t].id]))
  /\ pipes' = [pipes EXCEPT ![th[t].id] = Tail(@)]
  /\ UNCHANGED <<cfgVars, uiVars, jsVars, navVars, mpVars, envVars, hist>>

\* get_current_url (lines 620-621, 356-359): the lookup, on the calling thread of the
\* caller's process.
get_current_url(t, uid) ==
  /\ CanCall(t)
  /\ hist' = Saw(Obs("lookup", "get_current_url", CallerProc, "caller", TRUE))
  /\ th' = [th EXCEPT ![t] =
              IF uid \in instances[CallerProc]
              THEN [Begin(t, "get_current_url", uid) EXCEPT !.pc = "url_wait"]
              ELSE [Begin(t, "get_current_url", uid) EXCEPT
                      !.pc = "done", !.out = "raise", !.ret = "KeyError"]]
  /\ UNCHANGED <<cfgVars, uiVars, jsVars, navVars, pipes, mpVars, envVars>>

\* get_current_url after self.loaded.wait() (lines 357-359): webview.get_uri() is
\* called on the calling thread.
get_current_url_return(t) ==
  /\ th[t].pc = "url_wait"
  /\ sig[th[t].uid].loaded
  /\ hist' = Saw(Tk("webview.get_uri", th[t].uid, "caller"))
  /\ th' = Returned(t, "uri")
  /\ UNCHANGED <<cfgVars, uiVars, jsVars, navVars, pipes, mpVars, envVars>>

\* proc_func.caller (lines 426-429): the drain thread takes a command and calls it;
\* nothing catches what the call raises, so an exception ends the thread.
caller ==
  /\ mp
  /\ callerT = "running"
  /\ mp_idle_add # <<>>
  /\ LET cmd == Head(mp_idle_add) IN
     /\ mp_idle_add' = Tail(mp_idle_add)
     /\ hist' = [hist EXCEPT !.obs = @ \cup ExecObs(cmd, "drain")]
     /\ IF ExecRaises(cmd)
        THEN /\ callerT' = "dead"
             /\ UNCHANGED <<idleq, pipes>>
        ELSE /\ idleq' = ExecIdleq(cmd)
             /\ pipes' = IF cmd.f \in Direct
                         THEN [pipes EXCEPT ![cmd.conn] = Append(@, QueryValue(cmd.f, cmd.uid))]
                         ELSE pipes
             /\ UNCHANGED callerT
  /\ UNCHANGED <<cfgVars, instances, windows, sig, applied, uistack, mainLevel, quit,
                 jsVars, navVars, th, ctl, views, mp_events, childs, handlers, evloops,
                 envVars>>

\* ------------------------------------------------- callbacks on the UI loop
\* The toolkit call each simple closure makes on the surface it looked up.
IsFullscreen(w) ==
  Cardinality({i \in DOMAIN applied[w] : applied[w][i] = "fullscreen"})
    > Cardinality({i \in DOMAIN applied[w] : applied[w][i] = "unfullscreen"})
NativeCall(cb) ==
  CASE cb.f = "_set_title" -> "set_title"
    [] cb.f = "_toggle_fullscreen" ->
         (IF IsFullscreen(cb.uid) THEN "unfullscreen" ELSE "fullscreen")
    [] cb.f = "_set_on_top" -> "set_keep_above"
    [] cb.f = "_resize" -> "resize"
    [] cb.f = "_move" -> cb.arg
    [] cb.f = "window.hide" -> "hide"
    [] cb.f = "window.show_all" -> "show_all"
    [] cb.f = "window.iconify" -> "iconify"
    [] cb.f = "restore._restore" -> "deiconify"

\* The closures of _set_title, _toggle_fullscreen, _set_on_top, _resize and _move
\* (lines 500-501, 528-529, 542-543, 556-557, 570-571): BrowserView.instances[uid] is
\* indexed when the closure runs; KeyError ends the closure.
run_closure ==
  /\ UICanRun /\ idleq # <<>>
  /\ Head(idleq).f \in {"_set_title", "_toggle_fullscreen", "_set_on_top", "_resize", "_move"}
  /\ LET cb == Head(idleq) IN
     IF cb.uid \in instances["ui"]
     THEN /\ applied' = [applied EXCEPT ![cb.uid] = Append(@, NativeCall(cb))]
          /\ hist' = [hist EXCEPT !.obs = @ \cup {Obs("lookup", cb.f, "ui", "ui", TRUE),
                                                  Tk(cb.f, cb.uid, "ui")}]
     ELSE /\ hist' = Saw(Obs("lookup", cb.f, "ui", "ui", TRUE))
          /\ UNCHANGED applied
  /\ idleq' = Tail(idleq)
  /\ UNCHANGED <<cfgVars, instances, windows, sig, uistack, mainLevel, quit, jsVars,
                 navVars, th, pipes, mpVars, envVars>>

\* The closure of _destroy_window (lines 514-515): close_window of the surface looked
\* up, with no prompt.
run_destroy_window ==
  /\ IdleHead("_destroy_window")
  /\ hist' = Saw(Obs("lookup", "_destroy_window", "ui", "ui", TRUE))
  /\ idleq' = Tail(idleq)
  /\ IF Head(idleq).uid \in instances["ui"]
     THEN close_window_begin(Head(idleq).uid, uistack)
     ELSE UNCHANGED <<sig, mp_events, sem, uistack>>
  /\ UNCHANGED <<cfgVars, instances, windows, applied, mainLevel, quit, js_results, slot,
                 nextId, pendingJs, navVars, th, pipes, ctl, views, mp_idle_add, childs,
                 handlers, callerT, evloops, envVars>>

\* The closures of _load_url and _load_html (lines 632-633, 646-647) run
\* BrowserView.load_url / load_html (lines 361-367): loaded is cleared and the renderer
\* starts a new navigation, which replaces the one in progress.
run_load ==
  /\ UICanRun /\ idleq # <<>>
  /\ Head(idleq).f \in {"_load_url", "_load_html"}
  /\ LET cb == Head(idleq) IN
     IF cb.uid \in instances["ui"]
     THEN /\ sig' = [sig EXCEPT ![cb.uid].loaded = FALSE]
          /\ nav' = [nav EXCEPT ![cb.uid] = [id |-> @.id + 1, phase |-> "started"]]
          /\ hist' = [hist EXCEPT !.obs = @ \cup {Obs("lookup", cb.f, "ui", "ui", TRUE),
                                                  Tk("webview.load", cb.uid, "ui")}]
     ELSE /\ hist' = Saw(Obs("lookup", cb.f, "ui", "ui", TRUE))
          /\ UNCHANGED <<sig, nav>>
  /\ idleq' = Tail(idleq)
  /\ UNCHANGED <<cfgVars, instances, windows, applied, uistack, mainLevel, quit, jsVars,
                 opacity, th, pipes, mpVars, envVars>>

\* The bound methods queued by _hide, _show, _minimize and _restore. hide, minimize and
\* restore (lines 270-271, 293-301) queue the toolkit call once more; show (lines
\* 259-268) calls show_all and, the loop running, queues it again.
run_method ==
  /\ UICanRun /\ idleq # <<>>
  /\ Head(idleq).f \in {"BrowserView.hide", "BrowserView.show", "BrowserView.minimize",
                        "BrowserView.restore"}
  /\ LET cb == Head(idleq)
         next == CASE cb.f = "BrowserView.hide" -> "window.hide"
                   [] cb.f = "BrowserView.show" -> "window.show_all"
                   [] cb.f = "BrowserView.minimize" -> "window.iconify"
                   [] cb.f = "BrowserView.restore" -> "restore._restore"
     IN /\ idleq' = Append(Tail(idleq), Cb(next, cb.uid, "", 0))
        /\ IF cb.f = "BrowserView.show"
           THEN /\ applied' = [applied EXCEPT ![cb.uid] = Append(@, "show_all")]
                /\ hist' = Saw(Tk("window.show_all", cb.uid, "ui"))
           ELSE UNCHANGED <<applied, hist>>
  /\ UNCHANGED <<cfgVars, instances, windows, sig, uistack, mainLevel, quit, jsVars,
                 navVars, th, pipes, mpVars, envVars>>

\* The queued toolkit calls themselves: window.hide, window.show_all, window.iconify
\* and restore's _restore (lines 268, 271, 294, 297-299).
run_native ==
  /\ UICanRun /\ idleq # <<>>
  /\ Head(idleq).f \in {"window.hide", "window.show_all", "window.iconify",
                        "restore._restore"}
  /\ LET cb == Head(idleq) IN
     /\ applied' = [applied EXCEPT ![cb.uid] = Append(@, NativeCall(cb))]
     /\ hist' = Saw(Tk(cb.f, cb.uid, "ui"))
  /\ idleq' = Tail(idleq)
  /\ UNCHANGED <<cfgVars, instances, windows, sig, uistack, mainLevel, quit, jsVars,
                 navVars, th, pipes, mpVars, envVars>>

\* _get_position / _get_size run by the UI loop (queued by the except branch, lines
\* 697-698, 716-717).
run_query ==
  /\ UICanRun /\ idleq # <<>>
  /\ Head(idleq).f \in Direct
  /\ LET cb == Head(idleq) IN
     /\ hist' = [hist EXCEPT !.obs = @ \cup ExecObs(cb, "ui")]
     /\ pipes' = IF cb.uid \in instances["ui"]
                 THEN [pipes EXCEPT ![cb.conn] = Append(@, QueryValue(cb.f, cb.uid))]
                 ELSE pipes
  /\ idleq' = Tail(idleq)
  /\ UNCHANGED <<cfgVars, instances, windows, sig, applied, uistack, mainLevel, quit,
                 jsVars, navVars, th, mpVars, envVars>>

\* _create_file_dialog up to dialog.run() (lines 652-655, 303-331): the surface is
\* looked up (KeyError ends the callback, nothing is sent) and the chooser runs its loop.
run_create_file_dialog ==
  /\ IdleHead("_create_file_dialog")
  /\ LET cb == Head(idleq) IN
     /\ hist' = Saw(Obs("lookup", "_create_file_dialog", "ui", "ui", TRUE))
     /\ uistack' = IF cb.uid \in instances["ui"]
                   THEN Append(uistack, Frame("filedialog", cb.uid, cb.arg, cb.conn))
                   ELSE uistack
  /\ idleq' = Tail(idleq)
  /\ UNCHANGED <<cfgVars, instances, windows, sig, applied, mainLevel, quit, jsVars,
                 navVars, th, pipes, mpVars, envVars>>

\* Python values of the file dialog: a str is its characters, a list or a tuple its
\* items. Iterating a str gives its characters, each a str of length one; iterating a
\* list gives its items. tuple(v) holds what iterating v gives.
PyStr(chars) == [kind |-> "str", chars |-> chars, items |-> <<>>]
PyList(items) == [kind |-> "list", chars |-> <<>>, items |-> items]
Iterate(v) ==
  IF v.kind = "str" THEN [i \in 1..Len(v.chars) |-> PyStr(<<v.chars[i]>>)] ELSE v.items
PyTuple(v) == [kind |-> "tuple", chars |-> <<>>, items |-> Iterate(v)]

\* The text a value is written as.
RECURSIVE Join(_, _)
Join(parts, sep) ==
  IF parts = <<>> THEN ""
  ELSE IF Len(parts) = 1 THEN parts[1]
  ELSE parts[1] \o sep \o Join(Tail(parts), sep)
Repr(v) ==
  IF v.kind = "str" THEN "'" \o Join(v.chars, "") \o "'"
  ELSE LET inner == [i \in 1..Len(v.items) |->
                       "'" \o Join(v.items[i].chars, "") \o "'"]
       IN "(" \o Join(inner, ", ") \o (IF Len(inner) = 1 THEN ",)" ELSE ")")

\* The paths the user picks in the chooser, in selection order.
PathA == <<"/", "a">>
PathB == <<"/", "b">>
DialogAnswers == {"cancel", "one", "two"}
Selection(answer) ==
  IF answer = "two" THEN <<PyStr(PathA), PyStr(PathB)>> ELSE <<PyStr(PathA)>>

\* BrowserView.create_file_dialog after dialog.run() (lines 333-343): get_filename(),
\* one str, for a save dialog, the list get_filenames() otherwise.
FileName(dialog_type, answer) ==
  IF dialog_type = "SAVE" THEN Selection(answer)[1] ELSE PyList(Selection(answer))

\* What _create_file_dialog sends (lines 656-660): None on cancel, else
\* tuple(result).
FileDialogResult(dialog_type, answer) ==
  IF answer = "cancel" THEN NoneV ELSE Repr(PyTuple(FileName(dialog_type, answer)))

\* The chooser closes (lines 331-343, 656-660): the result goes onto the call's pipe.
file_dialog_response(answer) ==
  /\ mainLevel = 1
  /\ Top.k = "filedialog"
  /\ pipes' = [pipes EXCEPT ![Top.conn] = Append(@, FileDialogResult(Top.arg, answer))]
  /\ hist' = [hist EXCEPT !.chosen[Top.conn] = [type |-> Top.arg, answer |-> answer]]
  /\ uistack' = Pop(uistack)
  /\ UNCHANGED <<cfgVars, instances, windows, sig, applied, idleq, mainLevel, quit,
                 jsVars, navVars, th, mpVars, envVars>>

\* ------------------------------------------------------------ creation
\* create_window for a non-master window (lines 460-489). The embedding program has
\* put the Session on its windows list. Single-process: _create_window queues create
\* (lines 449-457) and views.put then raises NameError, views being assigned only
\* after the master's gtk.main() returned. Multi-process: the parameters go onto views
\* and one more mp_event_loop thread starts.
create_window(w) ==
  /\ w \notin requested
  /\ requested' = requested \cup {w}
  /\ windows' = [windows EXCEPT ![CallerProc] = @ \cup {w}]
  /\ IF mp
     THEN /\ views' = Append(views, w)
          /\ evloops' = evloops + 1
          /\ UNCHANGED idleq
     ELSE /\ idleq' = Append(idleq, Cb("create", w, "", 0))
          /\ UNCHANGED <<views, evloops>>
  /\ UNCHANGED <<cfgVars, instances, sig, applied, uistack, mainLevel, quit, jsVars,
                 navVars, th, pipes, ctl, mp_events, mp_idle_add, childs, handlers,
                 callerT, userCloses, hist>>

\* _create_window.create on the UI loop (lines 450-452): BrowserView(window) enters the
\* table, builds the native window and the renderer and starts the first navigation
\* (lines 60-157); show() (lines 259-268) calls show_all and queues it once more.
run_create ==
  /\ IdleHead("create")
  /\ LET w == Head(idleq).uid IN
     /\ instances' = [instances EXCEPT !["ui"] = @ \cup {w}]
     /\ js_results' = [js_results EXCEPT ![w] = {}]
     /\ applied' = [applied EXCEPT ![w] = <<"show_all">>]
     /\ nav' = [nav EXCEPT ![w] = [id |-> 1, phase |-> "started"]]
     /\ opacity' = [opacity EXCEPT ![w] = 0]
     /\ idleq' = Append(Tail(idleq), Cb("window.show_all", w, "", 0))
     /\ hist' = Saw(Tk("BrowserView", w, "ui"))
  /\ UNCHANGED <<cfgVars, windows, sig, uistack, mainLevel, quit, slot, sem, nextId,
                 pendingJs, th, pipes, mpVars, envVars>>

\* proc_func.childs, lines 416-420: a creation request is taken, the Session rebuilt
\* with shown and loaded unset, and create queued on the worker's UI loop.
childs_get ==
  /\ mp
  /\ childs.pc = "get"
  /\ views # <<>>
  /\ childs' = [pc |-> "closed", window |-> Head(views)]
  /\ views' = Tail(views)
  /\ idleq' = Append(idleq, Cb("create", Head(views), "", 0))
  /\ UNCHANGED <<cfgVars, instances, windows, sig, applied, uistack, mainLevel, quit,
                 jsVars, navVars, th, pipes, ctl, mp_events, mp_idle_add, handlers,
                 callerT, evloops, envVars, hist>>

\* proc_func.childs, lines 421-424: the four lambdas are attached, one statement at a
\* time, after create was queued.
childs_attach ==
  /\ childs.pc \in Signals
  /\ handlers' = [handlers EXCEPT ![childs.window] = @ \cup {childs.pc}]
  /\ childs' = [childs EXCEPT !.pc = CASE childs.pc = "closed" -> "closing"
                                       [] childs.pc = "closing" -> "shown"
                                       [] childs.pc = "shown" -> "loaded"
                                       [] childs.pc = "loaded" -> "get"]
  /\ UNCHANGED <<cfgVars, uiVars, jsVars, navVars, th, pipes, ctl, views, mp_events,
                 mp_idle_add, callerT, evloops, envVars, hist>>

\* mp_event_loop (lines 440-446): an event is taken and the signal of that name is set
\* on the Session of that uid in the controller's windows list.
mp_event_loop ==
  /\ evloops > 0
  /\ mp_events # <<>>
  /\ LET uid == Head(mp_events)[1]
         name == Head(mp_events)[2]
     IN ctl' = IF uid \in windows["controller"]
               THEN [ctl EXCEPT ![uid][name] = TRUE] ELSE ctl
  /\ mp_events' = Tail(mp_events)
  /\ UNCHANGED <<cfgVars, uiVars, jsVars, navVars, th, pipes, views, mp_idle_add, childs,
                 handlers, callerT, evloops, envVars, hist>>

\* ---------------------------------------------------------- specifications
\* Single-process mode, two surfaces, no close confirmation: load handling,
\* evaluate_js from the calling threads, and teardown by the user.
InitEval == InitFor(FALSE, FALSE, [w \in Uids |-> FALSE], Pair)

UIEval ==
  \/ run_set_opacity
  \/ create_bridge
  \/ run_evaluate_js
  \/ close_window_end
  \/ main_returns

RendererEval ==
  \/ \E w \in Uids : on_load_finish(w)
  \/ \E w \in Uids, id \in Ids, v \in JsValues : js_result(w, id, v)

ThreadEval(t) ==
  \/ evaluate_js_loaded(t)
  \/ evaluate_js_acquire(t)
  \/ evaluate_js_return(t)

NextEval ==
  \/ UIEval
  \/ RendererEval
  \/ \E t \in Threads : ThreadEval(t)
  \/ \E t \in Threads, uid \in Pair : evaluate_js(t, uid)
  \/ \E w \in Uids : delete_event(w)

SpecEval == InitEval /\ [][NextEval]_vars

\* The UI loop dispatches what is queued, the renderer finishes what it started, and
\* a thread that can take its next step takes it. Nothing obliges the user or the
\* embedding program to act.
FairEval ==
  /\ WF_vars(UIEval)
  /\ WF_vars(RendererEval)
  /\ \A t \in Threads : WF_vars(ThreadEval(t))

FairSpecEval == SpecEval /\ FairEval

\* Single-process mode, the master window, the callers' roles fixed: the waiters call
\* evaluate_js, the other threads navigate with load_url, the pages finish loading and
\* the user closes the window.
InitScript == InitFor(FALSE, FALSE, [w \in Uids |-> FALSE], {"master"})

UIScript ==
  \/ UIEval
  \/ run_load

NextScript ==
  \/ UIScript
  \/ RendererEval
  \/ \E t \in Threads : ThreadEval(t)
  \/ \E t \in Waiters : evaluate_js(t, "master")
  \/ \E t \in Threads \ Waiters : load_url(t, "master")
  \/ delete_event("master")

SpecScript == InitScript /\ [][NextScript]_vars

\* Single-process mode, the master window created with confirm_close: close requests
\* by the user, the prompt and its answers, with evaluate_js callers waiting on the
\* surface.
InitConfirm == InitFor(FALSE, FALSE, [w \in Uids |-> TRUE], {"master"})

UIConfirm ==
  \/ run_set_opacity
  \/ create_bridge
  \/ run_evaluate_js
  \/ close_window_end
  \/ main_returns

NextConfirm ==
  \/ UIConfirm
  \/ RendererEval
  \/ \E t \in Threads : ThreadEval(t)
  \/ \E t \in Waiters : evaluate_js(t, "master")
  \/ delete_event("master")
  \/ \E result \in {"OK", "CANCEL"} : on_destroy_response(result)

SpecConfirm == InitConfirm /\ [][NextConfirm]_vars

\* Single-process mode, navigation: load_url and load_html from the calling threads,
\* the renderer's load-finished notifications, and get_current_url waiting on loaded.
InitNav == InitFor(FALSE, FALSE, [w \in Uids |-> FALSE], {"master"})

UINav ==
  \/ run_load
  \/ run_set_opacity
  \/ create_bridge

NextNav ==
  \/ UINav
  \/ \E w \in Uids : on_load_finish(w)
  \/ \E t \in Threads, uid \in Uids : load_url(t, uid)
  \/ \E t \in Threads, uid \in Uids : load_html(t, uid)
  \/ \E t \in Threads, uid \in Uids : get_current_url(t, uid)
  \/ \E t \in Threads : get_current_url_return(t)

SpecNav == InitNav /\ [][NextNav]_vars

\* Multi-process mode, creation and the relay of lifecycle signals: the controller
\* requests w1, the worker's childs thread rebuilds it and attaches the lambdas, the
\* worker's UI loop builds and shows the surfaces, and mp_event_loop re-fires the
\* events in the controller.
InitMP == InitFor(TRUE, FALSE, [w \in Uids |-> FALSE], {"master"})

UIMP ==
  \/ run_create
  \/ run_native
  \/ run_set_opacity
  \/ create_bridge

RendererMP ==
  \/ \E w \in Uids : on_webview_ready(w)
  \/ \E w \in Uids : on_load_finish(w)

WorkerMP ==
  \/ childs_get
  \/ childs_attach

NextMP ==
  \/ UIMP
  \/ RendererMP
  \/ WorkerMP
  \/ mp_event_loop
  \/ create_window("w1")

SpecMP == InitMP /\ [][NextMP]_vars

\* Every thread and the renderer take the steps they can take; the controller is
\* obliged to nothing.
FairMP ==
  /\ WF_vars(UIMP)
  /\ WF_vars(RendererMP)
  /\ WF_vars(WorkerMP)
  /\ WF_vars(mp_event_loop)

FairSpecMP == SpecMP /\ FairMP

\* Both modes, the command router, operations that return nothing: each is addressed
\* to the master window or to a uid without a surface, while the user may close the
\* window.
OpUids == {"master", Ghost}
Coords == {"move(3, 4)"}
InitRoute == \E m \in BOOLEAN : InitFor(m, FALSE, [w \in Uids |-> FALSE], {"master"})

UIRoute ==
  \/ run_closure
  \/ run_destroy_window
  \/ run_load
  \/ run_method
  \/ run_native
  \/ run_set_opacity
  \/ create_bridge
  \/ close_window_end
  \/ main_returns

CallRoute(t, uid) ==
  \/ set_title(t, uid)
  \/ destroy_window(t, uid)
  \/ toggle_fullscreen(t, uid)
  \/ set_on_top(t, uid)
  \/ resize(t, uid)
  \/ \E xy \in Coords : move(t, uid, xy)
  \/ hide(t, uid)
  \/ show(t, uid)
  \/ minimize(t, uid)
  \/ restore(t, uid)
  \/ load_url(t, uid)
  \/ load_html(t, uid)

NextRoute ==
  \/ UIRoute
  \/ \E w \in Uids : on_load_finish(w)
  \/ caller
  \/ \E t \in Threads, uid \in OpUids : CallRoute(t, uid)
  \/ delete_event("master")

SpecRoute == InitRoute /\ [][NextRoute]_vars

\* Both modes, the command router, operations that return a value to their caller,
\* and hide as a command that returns nothing: each is addressed to the master window
\* or to a uid without a surface, while the user may close the window.
DialogTypes == {"OPEN", "SAVE"}
InitQuery == \E m \in BOOLEAN : InitFor(m, FALSE, [w \in Uids |-> FALSE], {"master"})

UIQuery ==
  \/ run_method
  \/ run_native
  \/ run_query
  \/ run_create_file_dialog
  \/ run_evaluate_js
  \/ run_set_opacity
  \/ create_bridge
  \/ close_window_end
  \/ main_returns

ThreadQuery(t) ==
  \/ ThreadEval(t)
  \/ get_current_url_return(t)
  \/ recv(t)

CallQuery(t, uid) ==
  \/ get_current_url(t, uid)
  \/ evaluate_js(t, uid)
  \/ \E dialog_type \in DialogTypes : create_file_dialog(t, uid, dialog_type)
  \/ get_position(t, uid)
  \/ get_size(t, uid)
  \/ hide(t, uid)

NextQuery ==
  \/ UIQuery
  \/ RendererEval
  \/ caller
  \/ \E answer \in DialogAnswers : file_dialog_response(answer)
  \/ \E t \in Threads : ThreadQuery(t)
  \/ \E t \in Threads, uid \in OpUids : CallQuery(t, uid)
  \/ delete_event("master")

SpecQuery == InitQuery /\ [][NextQuery]_vars

\* The UI loop, the drain thread, the renderer and the calling threads take the steps
\* they can take, and the user answers a file chooser that is open.
FairQuery ==
  /\ WF_vars(UIQuery)
  /\ WF_vars(RendererEval)
  /\ WF_vars(caller)
  /\ WF_vars(\E answer \in DialogAnswers : file_dialog_response(answer))
  /\ \A t \in Threads : WF_vars(ThreadQuery(t))

FairSpecQuery == SpecQuery /\ FairQuery

\* Single-process mode, the master window: the page sets its title while evaluate_js
\* callers wait for results and the user closes the window.
InitTitle == \E ow \in BOOLEAN : InitFor(FALSE, ow, [w \in Uids |-> FALSE], {"master"})

NextTitle ==
  \/ UIEval
  \/ RendererEval
  \/ \E title \in Titles : on_title_change("master", title)
  \/ \E t \in Threads : ThreadEval(t)
  \/ \E t \in Waiters : evaluate_js(t, "master")
  \/ delete_event("master")

SpecTitle == InitTitle /\ [][NextTitle]_vars

\* Either mode, the master window open throughout: one thread issues window
\* operations on it one after the other, each operation at most once.
InitOrder == \E m \in BOOLEAN : InitFor(m, FALSE, [w \in Uids |-> FALSE], {"master"})

UIOrder ==
  \/ run_closure
  \/ run_method
  \/ run_native

Fresh(t, op) == op \notin Range(hist.issued[t])

CallOrder(t) ==
  \/ Fresh(t, "hide") /\ hide(t, "master")
  \/ Fresh(t, "minimize") /\ minimize(t, "master")
  \/ Fresh(t, "restore") /\ restore(t, "master")
  \/ Fresh(t, "set_title") /\ set_title(t, "master")
  \/ Fresh(t, "resize") /\ resize(t, "master")

NextOrder ==
  \/ UIOrder
  \/ caller
  \/ \E t \in Waiters : CallOrder(t)
  \/ \E t \in Waiters : next_call(t)

SpecOrder == InitOrder /\ [][NextOrder]_vars

\* Either mode, the master window created with confirm_close: the user asks to close
\* it and answers the prompt, and threads call destroy_window.
InitDestroy == \E m \in BOOLEAN : InitFor(m, FALSE, [w \in Uids |-> TRUE], {"master"})

UIDestroy ==
  \/ run_destroy_window
  \/ close_window_end
  \/ main_returns

NextDestroy ==
  \/ UIDestroy
  \/ caller
  \/ \E t \in Threads : destroy_window(t, "master")
  \/ delete_event("master")
  \/ \E result \in {"OK", "CANCEL"} : on_destroy_response(result)

SpecDestroy == InitDestroy /\ [][NextDestroy]_vars

\* Single-process mode, two windows open: the waiters call evaluate_js on w1, the
\* pages load, results arrive, and the user closes the windows in either order.
InitLoop == InitFor(FALSE, FALSE, [w \in Uids |-> FALSE], Pair)

NextLoop ==
  \/ UIEval
  \/ RendererEval
  \/ \E t \in Waiters : ThreadEval(t)
  \/ \E t \in Waiters : evaluate_js(t, "w1")
  \/ \E w \in Uids : delete_event(w)

SpecLoop == InitLoop /\ [][NextLoop]_vars

\* Multi-process mode: the controller asks for the windows w1 and w2, one after the
\* other in either order; the worker creates them and relays their signals.
InitRelay == InitFor(TRUE, FALSE, [w \in Uids |-> FALSE], {"master"})

NextRelay ==
  \/ UIMP
  \/ RendererMP
  \/ WorkerMP
  \/ mp_event_loop
  \/ \E w \in Uids \ {"master"} : create_window(w)

SpecRelay == InitRelay /\ [][NextRelay]_vars

\* ------------------------------------------------------------------ claims
Outstanding(t) ==
  th[t].op = "evaluate_js" /\ th[t].pc \in {"wait_loaded", "acquire", "check"}

\* C1: when a window has been torn down while evaluate_js calls on it are registered
\* in js_results and have not returned, each of those calling threads eventually
\* returns from evaluate_js.
C1_TeardownReleasesEveryCaller ==
  \A t \in Threads :
    (Outstanding(t) /\ th[t].id \in js_results[th[t].uid] /\ sig[th[t].uid].closed)
      ~> (th[t].pc = "done")

\* C2: an evaluate_js call that waits for a loaded signal that was never set, on a
\* window that has been closed, eventually returns, and returns None.
C2_ClosedBeforeLoadedReturnsNone ==
  \A t \in Threads :
    (th[t].op = "evaluate_js" /\ th[t].pc = "wait_loaded"
       /\ hist.loadedBy[th[t].uid] = 0 /\ sig[th[t].uid].closed)
      ~> (th[t].pc = "done" /\ th[t].out = "return" /\ th[t].ret = NoneV)

\* C3: a script is in the renderer's hands only if its call is past the wait on
\* loaded and loaded has been set at some time before.
C3_SubmittedOnlyAfterLoaded ==
  \A t \in Threads :
    (th[t].op = "evaluate_js" /\ th[t].id \in pendingJs[th[t].uid])
      => (th[t].pc # "wait_loaded" /\ hist.loadedBy[th[t].uid] # 0)

\* C3 witness: the script of a call that was issued while loaded was unset is with
\* the renderer.
C3_Witness ==
  \E t \in Threads :
    th[t].op = "evaluate_js" /\ th[t].unloaded /\ th[t].id \in pendingJs[th[t].uid]

Last(s) == s[Len(s)]
InsideClose(w) == \E i \in DOMAIN uistack : uistack[i].k = "pump" /\ uistack[i].uid = w

\* C4: for a confirm_close window, the step in which the prompt is answered Cancel
\* changes nothing (the signals, the live-instance table, the windows list, the
\* semaphores of waiting evaluate_js callers and the native window stay as they were);
\* the step in which it is answered OK sets closing, and once that close_window has
\* run to its end closing and closed are set and the uid is out of the table. closed is
\* never set before closing.
C4_CancelKeepsOkCloses ==
  /\ [](\A w \in Uids :
          /\ sig[w].closed => sig[w].closing
          /\ (confirm[w] /\ hist.answers[w] # <<>> /\ Last(hist.answers[w]) = "OK"
                /\ ~InsideClose(w))
               => (sig[w].closing /\ sig[w].closed /\ w \notin instances["ui"]))
  /\ [][\A w \in Uids :
          (confirm[w] /\ Len(hist'.answers[w]) = Len(hist.answers[w]) + 1)
            => IF Last(hist'.answers[w]) = "CANCEL"
               THEN /\ sig' = sig /\ instances' = instances /\ windows' = windows
                    /\ sem' = sem /\ applied' = applied /\ quit' = quit
               ELSE sig'[w].closing]_vars

\* C4 witness: the prompt of a window was answered Cancel, then OK, an evaluate_js
\* caller was waiting at the Cancel, and the window is closed and out of the table.
C4_Witness ==
  /\ hist.answers["master"] = <<"CANCEL", "OK">>
  /\ sig["master"].closing /\ sig["master"].closed
  /\ "master" \notin instances["ui"]
  /\ \E t \in Threads : th[t].op = "evaluate_js" /\ th[t].uid = "master"

\* C6: whenever the loaded signal of a window is set, it was set by the load-finished
\* handling of the navigation the renderer is on, not by that of an earlier one.
C6_LoadedSetByCurrentNavigation ==
  \A w \in Uids : sig[w].loaded => hist.loadedBy[w] = nav[w].id

\* C5: in multi-process mode, once the worker has set shown (or loaded) on the Session
\* of w1, the controller's Session of w1 eventually has the signal of that name set.
C5_WorkerSignalReachesController ==
  \A name \in {"shown", "loaded"} :
    (mp /\ sig["w1"][name]) ~> ctl["w1"][name]

\* C7: in multi-process mode no operation looks a surface up in the controller
\* process.
C7_NoLookupInController ==
  mp => \A o \in hist.obs : o.kind = "lookup" => o.proc # "controller"

\* C8: every toolkit call on a native window or renderer is made by the UI-loop thread.
C8_ToolkitOnlyOnUIThread ==
  \A o \in hist.obs : o.kind = "toolkit" => o.thread = "ui"

\* C9: an operation addressed to a uid that had no live surface when it was called
\* does not return normally to its caller: the caller gets a failure.
C9_StaleUidFailsAtCaller ==
  \A t \in Threads : (th[t].stale /\ th[t].pc = "done") => th[t].out = "raise"

\* C10: a blocking query issued for a window that was live (in the table, teardown
\* not begun) eventually returns to its caller.
C10_QueryOnLiveWindowReturns ==
  \A t \in Threads :
    (th[t].pc = "recv" /\ th[t].live) ~> (th[t].pc = "done")

\* C11: a create_file_dialog call that returned gives what the user chose: None on
\* cancel, the one chosen path as a single path for a save dialog, and for an open
\* dialog the tuple of the chosen paths in selection order.
C11_DialogReturnsSelection ==
  \A t \in Threads :
    (th[t].op = "create_file_dialog" /\ th[t].pc = "done" /\ th[t].out = "return")
      => LET c == hist.chosen[th[t].id] IN
         th[t].ret = IF c.answer = "cancel" THEN NoneV
                     ELSE IF c.type = "SAVE" THEN Repr(Selection(c.answer)[1])
                     ELSE Repr([kind |-> "tuple", chars |-> <<>>,
                                items |-> Selection(c.answer)])

\* C12: a move(x, y, uid) issued for a live window completes without error, in both
\* process modes.
C12_MoveOnLiveWindowCompletes ==
  \A t \in Threads :
    (th[t].op = "move" /\ th[t].live /\ th[t].pc = "done") => th[t].out = "return"

\* C13: a title change whose title is not a bridge message (not JSON, or JSON that is
\* not a bridge object) raises nothing out of on_title_change and leaves the bridge
\* state as it was: the entries of js_results, their results and semaphores, and the
\* scripts injected.
BridgeMessage(title) ==
  TitleLoads(title).py = "dict" /\ TitleLoads(title).type \in {"eval", "invoke"}
C13_ForeignTitleIsIgnored ==
  [][\A title \in Titles :
       (~BridgeMessage(title) /\ on_title_change("master", title))
         => /\ hist'.uncaught = hist.uncaught
            /\ hist'.invoked = hist.invoked
            /\ UNCHANGED <<js_results, slot, sem, pendingJs>>]_vars

\* C14: the operations one thread issues on one window take effect on the native
\* window in the order of the calls: when the toolkit call of a later operation has
\* been made, the toolkit call of every earlier one has been made before it.
OpEffect(op) ==
  CASE op = "hide" -> "hide"
    [] op = "minimize" -> "iconify"
    [] op = "restore" -> "deiconify"
    [] OTHER -> op
C14_EffectsInSubmissionOrder ==
  \A t \in Threads : \A i, j \in DOMAIN Issued(t) :
    (i < j /\ OpEffect(Issued(t)[j]) \in Range(applied["master"]))
      => OpEffect(Issued(t)[i]) \in Range(applied["master"])

\* C15: teardown keeps its order for every window: closed is set only after closing;
\* a caller of evaluate_js that was pending on the window when its teardown began has
\* its semaphore released before the native window is destroyed; and once closed is
\* set the uid is in the instance table no more, nor the Session in the window list.
PendingOn(t, w) ==
  /\ th[t].op = "evaluate_js" /\ th[t].uid = w /\ th[t].live
  /\ th[t].pc \in {"wait_loaded", "acquire"}
C15_TeardownOrder ==
  \A w \in Uids :
    /\ sig[w].closed => sig[w].closing
    /\ sig[w].closed => (w \notin instances["ui"] /\ w \notin windows["ui"])
    /\ Destroyed(w) => \A t \in Threads : PendingOn(t, w) => sem[th[t].id] > 0
C15_Witness ==
  /\ sig["master"].closed
  /\ \E t \in Threads : PendingOn(t, "master") /\ th[t].pc = "acquire"

\* C16: the teardown of a window created with confirm_close runs only after its
\* prompt was shown and accepted, whether the close was asked for by the user or by
\* destroy_window.
C16_CloseOnlyThroughPrompt ==
  \A w \in Uids :
    (confirm[w] /\ sig[w].closing) => "OK" \in Range(hist.answers[w])

\* C17: the UI loop is told to stop exactly when the last surface left the instance
\* table: not while another uid is still in it, and always once it is empty. And while
\* the loop runs, an evaluate_js caller that its own window's teardown released, its
\* result slot still empty, returns None.
C17_LoopStopsWithLastSurface ==
  /\ [](quit <=> instances["ui"] = {})
  /\ [][\A t \in Threads :
          (/\ th[t].pc = "check" /\ th'[t].pc = "done"
           /\ sig[th[t].uid].closing /\ slot[th[t].id] = NoneV /\ mainLevel = 1)
            => (th'[t].out = "return" /\ th'[t].ret = NoneV)]_vars

\* C17 witness: w1 was closed with master still open, the loop runs on, and a caller
\* that waited on w1 has returned None through the decoding of its empty slot.
C17_Witness ==
  /\ sig["w1"].closed /\ instances["ui"] = {"master"} /\ ~quit /\ mainLevel = 1
  /\ \E t \in Threads :
       /\ th[t].op = "evaluate_js" /\ th[t].uid = "w1" /\ th[t].pc = "done"
       /\ th[t].ret = NoneV /\ slot[th[t].id] = NoneV /\ th[t].id \notin js_results["w1"]

\* C18: every event on the worker's event queue carries the uid of the window whose
\* signal fired, so the signal it names is set on that window in the worker, and the
\* controller sets a signal only on the Session of a window whose signal fired.
C18_EventCarriesFiringUid ==
  /\ \A i \in DOMAIN mp_events : sig[mp_events[i][1]][mp_events[i][2]]
  /\ \A w \in Uids, s \in Signals : ctl[w][s] => sig[w][s]

\* C19: js_results holds the entry of a call only while the call is outstanding: once
\* an evaluate_js call has returned, with a result or with None, its id is no longer a
\* key of the table.
C19_EntryGoneAfterReturn ==
  \A t \in Threads :
    (th[t].op = "evaluate_js" /\ th[t].pc = "done" /\ th[t].out = "return")
      => th[t].id \notin js_results[th[t].uid]

\* C20: the drain thread of the worker keeps serving its inbox after a command has
\* failed: as long as the worker's loop runs, every command put on mp_idle_add is
\* eventually taken off it.
C20_InboxKeepsDraining ==
  (mp_idle_add # <<>>) ~> (mp_idle_add = <<>> \/ mainLevel = 0)

\* C21: teardown runs at most once per surface: whatever close requests reach one uid
\* (destroy_window twice, destroy_window and a close by the user, a close run by the
\* pump of another close), its native window is destroyed at most once.
Destroys(w) == Cardinality({i \in DOMAIN applied[w] : applied[w][i] = "destroy"})
C21_TeardownAtMostOnce ==
  \A w \in Uids : Destroys(w) <= 1

\* C22: no operation is applied to a surface after its native window was destroyed:
\* every toolkit call on the surface, the destroy of a repeated teardown apart, was
\* made while the native window was still there.
C22_NoNativeCallAfterDestroy ==
  \A o \in hist.obs : (o.kind = "toolkit" /\ o.f # "window.destroy") => o.live

\* C23: in multi-process mode the signals of the master window are relayed too: once
\* the worker has set a signal on the Session of master, the controller's Session of
\* master eventually has the signal of that name set.
C23_MasterSignalReachesController ==
  \A name \in Signals :
    (mp /\ sig["master"][name]) ~> ctl["master"][name]

====
